---- MODULE Spec2Model ----
(***************************************************************************)
(* koatty_graphql: GraphQL SDL -> normalized model -> TypeScript           *)
(* declarations.  A verification model of src/unnamed/part_001.            *)
(*                                                                         *)
(* Strings are sequences of atoms.  An identifier is one atom; the         *)
(* characters the code inspects ("[", "]", "!") are atoms of their own, so *)
(* endsWith('[]'), slice(0, -2) and includes('!') act as in the code.      *)
(* The empty string is <<>>.  A JavaScript object is a record (function)   *)
(* whose DOMAIN holds the properties that are present.                     *)
(***************************************************************************)
EXTENDS Naturals, Sequences, FiniteSets, TLC

VARIABLES
  typeMap,    \* the live Scalar Type Map (module-level const typeMap)
  ret,        \* what the last call of an exported function gave its caller
  snapshot,   \* the object a caller kept from a getScalarTypeMap call
  first       \* the first rendering a caller kept, to compare later ones to

vars == <<typeMap, ret, snapshot, first>>

None == [op |-> "none"]

----------------------------------------------------------------------------
(* Bounds of the model *)

MaxWrap == 2      \* depth of list / non-null wrappers around a named type
MaxDefs == 2      \* number of top-level definitions in a document

----------------------------------------------------------------------------
(* String primitives *)

Str(w) == <<w>>
Brackets == <<"[", "]">>
Bang == <<"!">>

EndsWith(s, t) ==
  Len(s) >= Len(t) /\ SubSeq(s, Len(s) - Len(t) + 1, Len(s)) = t

Includes(s, t) ==
  \E i \in 1..(Len(s) - Len(t) + 1) : SubSeq(s, i, i + Len(t) - 1) = t

DropLast(s, k) == SubSeq(s, 1, Len(s) - k)

\* JavaScript truthiness of a string: only '' is falsy
Truthy(s) == s # <<>>

RECURSIVE Join(_, _)
Join(lines, sep) ==
  IF lines = <<>> THEN <<>>
  ELSE IF Len(lines) = 1 THEN lines[1]
  ELSE lines[1] \o sep \o Join(Tail(lines), sep)

\* array.map(F)
Map(F(_), s) == [i \in 1..Len(s) |-> F(s[i])]

\* node.prop?.map(F) || []  and  node.prop || []
MapOrEmpty(F(_), node, prop) ==
  IF prop \in DOMAIN node THEN Map(F, node[prop]) ELSE <<>>

\* A JavaScript object whose keys are iterated (Object.values, Object.entries):
\* a sequence of [key, value] in insertion order; writing an existing key
\* keeps its place.
OmHas(om, k) == \E i \in 1..Len(om) : om[i].key = k
OmGet(om, k) == om[CHOOSE i \in 1..Len(om) : om[i].key = k].value
OmPut(om, k, v) ==
  IF OmHas(om, k)
  THEN [i \in 1..Len(om) |-> IF om[i].key = k THEN [key |-> k, value |-> v] ELSE om[i]]
  ELSE Append(om, [key |-> k, value |-> v])
OmKeys(om) == [i \in 1..Len(om) |-> om[i].key]
OmValues(om) == [i \in 1..Len(om) |-> om[i].value]


----------------------------------------------------------------------------
(* Scalar Type Map *)

InitialTypeMap ==
  (Str("ID") :> Str("string")) @@ (Str("String") :> Str("string")) @@
  (Str("Int") :> Str("number")) @@ (Str("Float") :> Str("number")) @@
  (Str("Boolean") :> Str("boolean"))

\* m[key] || orElse
LookupOr(m, key, orElse) ==
  IF key \in DOMAIN m /\ Truthy(m[key]) THEN m[key] ELSE orElse

\* Object.assign(target, source), also { ...target, ...source }
ObjectAssign(target, source) ==
  [k \in DOMAIN target \cup DOMAIN source |->
     IF k \in DOMAIN source THEN source[k] ELSE target[k]]

\* description: node.description?.value
WithDescription(info, node) ==
  IF "description" \in DOMAIN node
  THEN ObjectAssign(info, [description |-> node.description])
  ELSE info

----------------------------------------------------------------------------
(* Type references: NamedType / ListType / NonNullType nodes *)

Named(n) == [kind |-> "NamedType", name |-> n]
List(t) == [kind |-> "ListType", type |-> t]
NonNull(t) == [kind |-> "NonNullType", type |-> t]

RECURSIVE getTypeName(_)
getTypeName(type) ==
  IF type.kind = "NonNullType" THEN getTypeName(type.type)
  ELSE IF type.kind = "ListType" THEN getTypeName(type.type) \o Brackets
  ELSE LookupOr(typeMap, type.name, type.name)

\* the frozen copy a caller was given earlier is handed out again
getScalarTypeMapCached ==
  IF snapshot = None THEN [frozen |-> TRUE, props |-> typeMap] ELSE snapshot

\* a copy that is not frozen
getScalarTypeMapUnfrozen == [frozen |-> FALSE, props |-> typeMap]

\* Object.freeze({ ...typeMap })
getScalarTypeMap == [frozen |-> TRUE, props |-> typeMap]

\* obj[key] = value on an object that may be frozen
SetProperty(obj, key, value) ==
  IF obj.frozen THEN obj
  ELSE [obj EXCEPT !.props = ObjectAssign(obj.props, key :> value)]

----------------------------------------------------------------------------
(* Document loading *)

\* instanceof Error / instanceof GraphQLParseError
IsError(e) == e.class \in { "Error", "GraphQLError", "GraphQLParseError" }
IsGraphQLParseError(e) == e.class = "GraphQLParseError"

\* new GraphQLParseError(message, cause)
GraphQLParseError(message, cause) ==
  IF cause = None
  THEN [class |-> "GraphQLParseError", name |-> "GraphQLParseError",
        message |-> message, stack |-> "GraphQLParseError"]
  ELSE [class |-> "GraphQLParseError", name |-> "GraphQLParseError",
        message |-> message, cause |-> cause, stack |-> cause.stack]

\* the failure is wrapped without its cause
OnFailureNoCause(error, schemaFile) ==
  IF IsGraphQLParseError(error) THEN error
  ELSE GraphQLParseError(<<"Failed to parse schema file: ">> \o schemaFile, None)

\* the catch block
OnFailure(error, schemaFile) ==
  IF IsGraphQLParseError(error) THEN error
  ELSE GraphQLParseError(<<"Failed to parse schema file: ">> \o schemaFile,
                         IF IsError(error) THEN error ELSE None)

\* exists: what existsSync answers; read: what readFileSync does ([ok, source]
\* or [ok, error]); parsed: what parse does with the source ([ok, document] or
\* [ok, error]).  calls lists the external calls made, in order.
parseGraphqlDocument(schemaFile, exists, read, parsed) ==
  IF ~exists
  THEN [outcome |-> "throw", calls |-> <<"existsSync">>,
        error |-> GraphQLParseError(<<"Schema file not found: ">> \o schemaFile, None)]
  ELSE IF ~read.ok
  THEN [outcome |-> "throw", calls |-> <<"existsSync", "readFileSync">>,
        error |-> OnFailure(read.error, schemaFile)]
  ELSE IF ~parsed.ok
  THEN [outcome |-> "throw", calls |-> <<"existsSync", "readFileSync", "parse">>,
        error |-> OnFailure(parsed.error, schemaFile)]
  ELSE [outcome |-> "return", calls |-> <<"existsSync", "readFileSync", "parse">>,
        value |-> parsed.document]

----------------------------------------------------------------------------
(* Operation Extractor *)

operationTypes == { Str("Query"), Str("Mutation"), Str("Subscription") }

EmptyOperations ==
  << [key |-> Str("Query"), value |-> <<>>],
     [key |-> Str("Mutation"), value |-> <<>>],
     [key |-> Str("Subscription"), value |-> <<>>] >>

OperationArg(arg) == [name |-> arg.name, type |-> getTypeName(arg.type)]

\* the arguments are mapped and left absent when the node has none
OperationFieldNoDefault(field) ==
  IF "arguments" \in DOMAIN field
  THEN [name |-> field.name,
        args |-> Map(OperationArg, field.arguments),
        returnType |-> getTypeName(field.type)]
  ELSE [name |-> field.name, returnType |-> getTypeName(field.type)]

OperationField(field) ==
  [name |-> field.name,
   args |-> MapOrEmpty(OperationArg, field, "arguments"),
   returnType |-> getTypeName(field.type)]

\* the fields of a later root definition replace the earlier ones
PushFieldsReplacing(operations, operationType, fields) ==
  OmPut(operations, operationType, Map(OperationField, fields))

\* operations[operationType].push(...) for each field of one root definition
PushFields(operations, operationType, fields) ==
  OmPut(operations, operationType,
        OmGet(operations, operationType) \o Map(OperationField, fields))

RECURSIVE parseOperationsFrom(_, _)
parseOperationsFrom(definitions, operations) ==
  IF definitions = <<>> THEN operations
  ELSE LET def == Head(definitions) IN
       IF def.kind = "ObjectTypeDefinition" /\ def.name \in operationTypes
       THEN parseOperationsFrom(Tail(definitions),
              PushFields(operations, def.name,
                         IF "fields" \in DOMAIN def THEN def.fields ELSE <<>>))
       ELSE parseOperationsFrom(Tail(definitions), operations)

parseOperations(document) ==
  parseOperationsFrom(document.definitions, EmptyOperations)

----------------------------------------------------------------------------
(* Document Classifier *)

FieldInfo(kind, node) ==
  WithDescription([kind |-> kind, name |-> node.name, type |-> getTypeName(node.type)],
                  node)

FieldInfos(kind, def) ==
  IF "fields" \in DOMAIN def
  THEN [i \in 1..Len(def.fields) |-> FieldInfo(kind, def.fields[i])]
  ELSE <<>>

RECURSIVE parseTypeDefinitionsFrom(_, _)
parseTypeDefinitionsFrom(definitions, typeMaps) ==
  IF definitions = <<>> THEN typeMaps
  ELSE LET def == Head(definitions) IN
       IF def.kind \in { "ObjectTypeDefinition", "InputObjectTypeDefinition",
                         "ScalarTypeDefinition" }
       THEN parseTypeDefinitionsFrom(Tail(definitions),
              OmPut(typeMaps, def.name,
                    WithDescription([kind |-> def.kind, name |-> def.name,
                                     fields |-> FieldInfos(def.kind, def)], def)))
       ELSE parseTypeDefinitionsFrom(Tail(definitions), typeMaps)

parseTypeDefinitions(document) ==
  parseTypeDefinitionsFrom(document.definitions, <<>>)

EmptyExtendedTypes ==
  [objects |-> <<>>, inputs |-> <<>>, scalars |-> <<>>,
   enums |-> <<>>, interfaces |-> <<>>, unions |-> <<>>]

RecognizedKinds ==
  { "ObjectTypeDefinition", "InputObjectTypeDefinition", "ScalarTypeDefinition",
    "EnumTypeDefinition", "InterfaceTypeDefinition", "UnionTypeDefinition" }

\* the interface case writes into the object bucket
BucketOfMisrouted(kind) ==
  CASE kind = "ObjectTypeDefinition" -> "objects"
    [] kind = "InputObjectTypeDefinition" -> "inputs"
    [] kind = "ScalarTypeDefinition" -> "scalars"
    [] kind = "EnumTypeDefinition" -> "enums"
    [] kind = "InterfaceTypeDefinition" -> "objects"
    [] kind = "UnionTypeDefinition" -> "unions"

\* the bucket each case of the switch writes
BucketOf(kind) ==
  CASE kind = "ObjectTypeDefinition" -> "objects"
    [] kind = "InputObjectTypeDefinition" -> "inputs"
    [] kind = "ScalarTypeDefinition" -> "scalars"
    [] kind = "EnumTypeDefinition" -> "enums"
    [] kind = "InterfaceTypeDefinition" -> "interfaces"
    [] kind = "UnionTypeDefinition" -> "unions"

\* the entry each case of the switch builds
TypeInfo(def) ==
  WithDescription(
    CASE def.kind \in { "ObjectTypeDefinition", "InputObjectTypeDefinition",
                        "InterfaceTypeDefinition" } ->
           [kind |-> def.kind, name |-> def.name, fields |-> FieldInfos(def.kind, def)]
      [] def.kind = "ScalarTypeDefinition" ->
           [kind |-> def.kind, name |-> def.name, fields |-> <<>>]
      [] def.kind = "EnumTypeDefinition" ->
           [kind |-> def.kind, name |-> def.name,
            values |-> IF "values" \in DOMAIN def THEN def.values ELSE <<>>]
      [] def.kind = "UnionTypeDefinition" ->
           [kind |-> def.kind, name |-> def.name,
            types |-> IF "types" \in DOMAIN def THEN def.types ELSE <<>>],
    def)

RECURSIVE parseExtendedTypesFrom(_, _)
parseExtendedTypesFrom(definitions, result) ==
  IF definitions = <<>> THEN result
  ELSE LET def == Head(definitions) IN
       IF def.kind \in RecognizedKinds
       THEN parseExtendedTypesFrom(Tail(definitions),
              [result EXCEPT ![BucketOf(def.kind)] = OmPut(@, def.name, TypeInfo(def))])
       ELSE parseExtendedTypesFrom(Tail(definitions), result)

parseExtendedTypes(document) ==
  parseExtendedTypesFrom(document.definitions, EmptyExtendedTypes)

----------------------------------------------------------------------------
(* Declaration Renderer *)

NL == <<"\n">>

\* options.flag as a condition
Flag(options, name) == name \in DOMAIN options /\ options[name]

formatTypeName(name, options) ==
  LookupOr(options, "prefix", <<>>) \o name \o LookupOr(options, "suffix", <<>>)

RECURSIVE getTypeScriptType(_, _)
getTypeScriptType(type, options) ==
  IF EndsWith(type, Brackets)
  THEN getTypeScriptType(DropLast(type, 2), options) \o Brackets
  ELSE LET formattedName == formatTypeName(type, options)
           scalarMap == getScalarTypeMap.props
       IN  IF type \in DOMAIN scalarMap /\ Truthy(scalarMap[type])
           THEN scalarMap[type]
           ELSE formattedName

\* the marker is given whatever strictNullChecks says
optionalMarkerAlways(field, options) ==
  IF ~Includes(field.type, Bang) THEN <<"?">> ELSE <<>>

optionalMarker(field, options) ==
  IF ~Includes(field.type, Bang) /\ Flag(options, "strictNullChecks")
  THEN <<"?">> ELSE <<>>

generateFieldDeclaration(field, options) ==
  <<"  ">> \o field.name \o optionalMarker(field, options) \o <<": ">>
    \o getTypeScriptType(field.type, options) \o <<";">>

generateTypeDefinition(info, options) ==
  LET typeName == formatTypeName(info.name, options)
      fields == Join([i \in 1..Len(info.fields) |->
                        generateFieldDeclaration(info.fields[i], options)], NL)
  IN  IF info.kind = "ScalarTypeDefinition"
      THEN <<"export type ">> \o typeName \o <<" = string;">>
      ELSE <<"export interface ">> \o typeName \o <<" {\n">> \o fields \o <<"\n}">>

generateEnumDeclaration(info, options) ==
  LET enumName == formatTypeName(info.name, options)
      values == Join([i \in 1..Len(info.values) |->
                        <<"  ">> \o info.values[i] \o <<" = '">> \o info.values[i] \o <<"'">>],
                     <<",\n">>)
  IN  IF Flag(options, "useEnumType")
      THEN <<"export const ">> \o enumName \o <<" = {\n">> \o values
             \o <<"\n} as const;\n\nexport type ">> \o enumName \o <<" = typeof ">>
             \o enumName \o <<"[keyof typeof ">> \o enumName \o <<"];">>
      ELSE <<"export enum ">> \o enumName \o <<" {\n">> \o values \o <<"\n}">>

generateInterfaceDeclaration(info, options) ==
  LET interfaceName == formatTypeName(info.name, options)
      fields == Join([i \in 1..Len(info.fields) |->
                        generateFieldDeclaration(info.fields[i], options)], NL)
  IN  IF Flag(options, "useInterfaceType")
      THEN <<"export interface ">> \o interfaceName \o <<" {\n">> \o fields \o <<"\n}">>
      ELSE <<"export type ">> \o interfaceName \o <<" = {\n">> \o fields \o <<"\n};">>

generateUnionDeclaration(info, options) ==
  LET unionName == formatTypeName(info.name, options)
      types == Join([i \in 1..Len(info.types) |-> formatTypeName(info.types[i], options)],
                    <<" | ">>)
  IN  <<"export type ">> \o unionName \o <<" = ">> \o types \o <<";">>

\* the banner lines, then each declaration followed by an empty line
Lines(banner, declarations) ==
  << <<"/* Auto-generated by koatty-graphql */">>, <<>>, <<banner>>, <<>> >>
    \o [i \in 1..(2 * Len(declarations)) |->
          IF i % 2 = 1 THEN declarations[(i + 1) \div 2] ELSE <<>>]

generateTypeScriptTypes(typeDefinitions, options) ==
  LET defaultOptions ==
        ObjectAssign([prefix |-> <<>>, suffix |-> <<>>, useEnumType |-> FALSE,
                      useInterfaceType |-> FALSE, strictNullChecks |-> FALSE], options)
      infos == OmValues(typeDefinitions)
  IN  Join(Lines("// Type Definitions",
                 [i \in 1..Len(infos) |-> generateTypeDefinition(infos[i], defaultOptions)]),
           NL)

generateInputTypes(inputDefinitions, options) ==
  LET defaultOptions ==
        ObjectAssign([prefix |-> <<>>, suffix |-> <<>>, strictNullChecks |-> FALSE], options)
      infos == OmValues(inputDefinitions)
  IN  Join(Lines("// Input Types",
                 [i \in 1..Len(infos) |-> generateTypeDefinition(infos[i], defaultOptions)]),
           NL)

generateEnums(enumDefinitions, options) ==
  LET defaultOptions == ObjectAssign([useEnumType |-> FALSE], options)
      infos == OmValues(enumDefinitions)
  IN  Join(Lines("// Enum Types",
                 [i \in 1..Len(infos) |-> generateEnumDeclaration(infos[i], defaultOptions)]),
           NL)

generateInterfaces(interfaceDefinitions, options) ==
  LET defaultOptions == ObjectAssign([useInterfaceType |-> FALSE], options)
      infos == OmValues(interfaceDefinitions)
  IN  Join(Lines("// Interface Types",
                 [i \in 1..Len(infos) |->
                    generateInterfaceDeclaration(infos[i], defaultOptions)]),
           NL)

generateUnions(unionDefinitions, options) ==
  LET defaultOptions == ObjectAssign(<<>>, options)
      infos == OmValues(unionDefinitions)
  IN  Join(Lines("// Union Types",
                 [i \in 1..Len(infos) |-> generateUnionDeclaration(infos[i], defaultOptions)]),
           NL)

OperationSignature(f, options) ==
  LET args == Join([i \in 1..Len(f.args) |->
                      f.args[i].name \o <<": ">>
                        \o getTypeScriptType(f.args[i].type, options)], <<", ">>)
      returnType == getTypeScriptType(f.returnType, options)
  IN  <<"  ">> \o f.name \o <<"(">> \o args \o <<"): ">> \o returnType \o <<";">>

OperationLines(entry, options) ==
  LET interfaceName == formatTypeName(entry.key, options)
      fieldLines == Join([i \in 1..Len(entry.value) |->
                            OperationSignature(entry.value[i], options)], NL)
  IN  << <<"export interface ">> \o interfaceName \o <<" {">>, fieldLines, <<"}">>, <<>> >>

RECURSIVE Concat(_)
Concat(seqs) == IF seqs = <<>> THEN <<>> ELSE Head(seqs) \o Concat(Tail(seqs))

generateOperations(operations, options) ==
  LET defaultOptions == ObjectAssign([prefix |-> <<>>, suffix |-> <<>>], options)
  IN  Join(<< <<"/* Auto-generated by koatty-graphql */">>, <<>>, <<"// Operations">>, <<>> >>
             \o Concat([i \in 1..Len(operations) |->
                          OperationLines(operations[i], defaultOptions)]),
           NL)

----------------------------------------------------------------------------
(* Generation Orchestrator *)

\* every root sequence must be non-empty
hasOperationsEvery(operations) ==
  \A i \in 1..Len(operations) : Len(operations[i].value) > 0

hasOperations(operations) ==
  \E i \in 1..Len(operations) : Len(operations[i].value) > 0

generateAll(document, options) ==
  LET extendedTypes == parseExtendedTypes(document)
      operations == parseOperations(document)
  IN  (IF Len(extendedTypes.objects) > 0
       THEN << [filename |-> "types.ts",
                content |-> generateTypeScriptTypes(extendedTypes.objects, options)] >>
       ELSE <<>>)
      \o (IF Len(extendedTypes.inputs) > 0
          THEN << [filename |-> "inputs.ts",
                   content |-> generateInputTypes(extendedTypes.inputs, options)] >>
          ELSE <<>>)
      \o (IF Len(extendedTypes.enums) > 0
          THEN << [filename |-> "enums.ts",
                   content |-> generateEnums(extendedTypes.enums, options)] >>
          ELSE <<>>)
      \o (IF Len(extendedTypes.interfaces) > 0
          THEN << [filename |-> "interfaces.ts",
                   content |-> generateInterfaces(extendedTypes.interfaces, options)] >>
          ELSE <<>>)
      \o (IF Len(extendedTypes.unions) > 0
          THEN << [filename |-> "unions.ts",
                   content |-> generateUnions(extendedTypes.unions, options)] >>
          ELSE <<>>)
      \o (IF hasOperations(operations)
          THEN << [filename |-> "operations.ts",
                   content |-> generateOperations(operations, options)] >>
          ELSE <<>>)

----------------------------------------------------------------------------
(* Inputs of the operations *)

TypeNames ==
  { Str("ID"), Str("String"), Str("Int"), Str("Boolean"),
    Str("Date"), Str("User") }

RECURSIVE TypeRefs(_)
TypeRefs(d) ==
  IF d = 0 THEN { Named(n) : n \in TypeNames }
  ELSE LET S == TypeRefs(d - 1) IN
       S \cup { List(t) : t \in S }
         \cup { NonNull(t) : t \in { u \in S : u.kind # "NonNullType" } }

OverrideKeys == { Str("ID"), Str("Date") }
OverrideValues == { <<>>, Str("Date") }

\* Partial<GraphQLScalarTypeMap>: any subset of the keys, each with a value
Overrides ==
  UNION { [K -> OverrideValues] : K \in SUBSET OverrideKeys }

\* the overrides of Date alone, the one scalar the models below refer to
DateOverrides == { map \in Overrides : DOMAIN map = { Str("Date") } }

\* { Date: 'Date!' }: a registry value that holds a non-null indicator
BangOverride == Str("Date") :> (Str("Date") \o Bang)

\* GenerateOptions: {} and objects with some of the options set
OptionsSet ==
  { <<>>,
    [prefix |-> Str("I"), suffix |-> Str("Dto")],
    [prefix |-> <<>>, strictNullChecks |-> TRUE],
    [strictNullChecks |-> FALSE, useEnumType |-> TRUE, useInterfaceType |-> TRUE] }

Field(name, type) == [name |-> Str(name), type |-> type]
FieldWithArgs(name, args, type) == [name |-> Str(name), arguments |-> args, type |-> type]

\* type User { id: ID!  tags: [String!]!  friend: User }, with a description
ObjUser ==
  [kind |-> "ObjectTypeDefinition", name |-> Str("User"), description |-> Str("A user"),
   fields |-> << FieldWithArgs("id", <<>>, NonNull(Named(Str("ID")))),
                 FieldWithArgs("tags", <<>>,
                               NonNull(List(NonNull(Named(Str("String")))))),
                 FieldWithArgs("friend", <<>>, Named(Str("User"))) >>]

\* type Query { getUser(id: ID!): User  users: [User!]! }
ObjQuery ==
  [kind |-> "ObjectTypeDefinition", name |-> Str("Query"),
   fields |-> << FieldWithArgs("getUser", << Field("id", NonNull(Named(Str("ID")))) >>,
                               Named(Str("User"))),
                 FieldWithArgs("users", <<>>,
                               NonNull(List(NonNull(Named(Str("User")))))) >>]

\* type Query { now: Date }, the field node without an arguments property
ObjQueryMore ==
  [kind |-> "ObjectTypeDefinition", name |-> Str("Query"),
   fields |-> << Field("now", Named(Str("Date"))) >>]

\* type Mutation { setRole(id: ID!, role: Role): Boolean }
ObjMutation ==
  [kind |-> "ObjectTypeDefinition", name |-> Str("Mutation"),
   fields |-> << FieldWithArgs("setRole",
                               << Field("id", NonNull(Named(Str("ID")))),
                                  Field("role", Named(Str("Role"))) >>,
                               Named(Str("Boolean"))) >>]

\* type Subscription, the node without a fields property
ObjSubscriptionBare == [kind |-> "ObjectTypeDefinition", name |-> Str("Subscription")]

\* input Query { limit: Int }
InputQuery ==
  [kind |-> "InputObjectTypeDefinition", name |-> Str("Query"),
   fields |-> << Field("limit", Named(Str("Int"))) >>]

ScalarDate == [kind |-> "ScalarTypeDefinition", name |-> Str("Date")]

\* enum Role { ADMIN USER }
EnumRole ==
  [kind |-> "EnumTypeDefinition", name |-> Str("Role"),
   values |-> << Str("ADMIN"), Str("USER") >>]

\* interface Node { key: ID!  at: Date }
InterfaceNode ==
  [kind |-> "InterfaceTypeDefinition", name |-> Str("Node"),
   fields |-> << FieldWithArgs("key", <<>>, NonNull(Named(Str("ID")))),
                 FieldWithArgs("at", <<>>, Named(Str("Date"))) >>]

\* union Result = User | Role
UnionResult ==
  [kind |-> "UnionTypeDefinition", name |-> Str("Result"),
   types |-> << Str("User"), Str("Role") >>]

\* extend type Query { extra: Int }
ExtendQuery ==
  [kind |-> "ObjectTypeExtension", name |-> Str("Query"),
   fields |-> << FieldWithArgs("extra", <<>>, Named(Str("Int"))) >>]

\* schema { query: Query }: a definition without a name
SchemaDef == [kind |-> "SchemaDefinition"]

DefinitionPool ==
  { ObjUser, ObjQuery, ObjQueryMore, ObjMutation, ObjSubscriptionBare, InputQuery,
    ScalarDate, EnumRole, InterfaceNode, UnionResult, ExtendQuery, SchemaDef }

Documents ==
  { [definitions |-> defs] :
      defs \in UNION { [1..n -> DefinitionPool] : n \in 0..MaxDefs } }

\* Schema files and what the file system and the SDL parser answer for them
SchemaFiles == { Str("schema.graphql"), Str("other.graphql") }

ReadOutcomes ==
  { [ok |-> TRUE, source |-> "scalar Date enum Role { ADMIN USER }"],
    [ok |-> TRUE, source |-> "type Query { now: Date }"],
    [ok |-> TRUE, source |-> "type Query {"],
    [ok |-> FALSE, error |-> [class |-> "Error", name |-> "Error",
                              message |-> Str("EACCES: permission denied"),
                              stack |-> "Error: EACCES"]],
    [ok |-> FALSE, error |-> [class |-> "Error", name |-> "Error",
                              message |-> Str("ENOENT: no such file or directory"),
                              stack |-> "Error: ENOENT"]] }

\* parse(source) of the graphql package
Parse(source) ==
  CASE source = "scalar Date enum Role { ADMIN USER }" ->
         [ok |-> TRUE, document |-> [definitions |-> <<ScalarDate, EnumRole>>]]
    [] source = "type Query { now: Date }" ->
         [ok |-> TRUE, document |-> [definitions |-> <<ObjQueryMore>>]]
    [] OTHER ->
         [ok |-> FALSE, error |-> [class |-> "GraphQLError", name |-> "GraphQLError",
                                   message |-> Str("Syntax Error: Expected Name, found <EOF>."),
                                   stack |-> "GraphQLError: Syntax Error"]]

\* Normalized models a caller hands to the generate functions
Info(kind, name, fields) == [kind |-> kind, name |-> Str(name), fields |-> fields]
FInfo(kind, name, type) == [kind |-> kind, name |-> Str(name), type |-> type]
Entry(info) == [key |-> info.name, value |-> info]

TypeModels ==
  { << Entry(Info("ObjectTypeDefinition", "User",
         << FInfo("ObjectTypeDefinition", "id", Str("string")),
            FInfo("ObjectTypeDefinition", "tags", Str("string") \o Brackets),
            FInfo("ObjectTypeDefinition", "born", Str("Date")) >>)) >>,
    << Entry(Info("ObjectTypeDefinition", "Post",
         << FInfo("ObjectTypeDefinition", "title", Str("String") \o Bang),
            FInfo("ObjectTypeDefinition", "author", Str("User")) >>)),
       Entry(Info("ScalarTypeDefinition", "Date", <<>>)) >> }

InputModels ==
  { << Entry(Info("InputObjectTypeDefinition", "Filter",
         << FInfo("InputObjectTypeDefinition", "limit", Str("number")),
            FInfo("InputObjectTypeDefinition", "since", Str("Date") \o Bang) >>)) >> }

EnumInfo(name, values) ==
  [kind |-> "EnumTypeDefinition", name |-> Str(name), values |-> values]

EnumModels ==
  { << Entry([kind |-> "EnumTypeDefinition", name |-> Str("Role"),
              values |-> << Str("ADMIN"), Str("USER") >>]) >>,
    << Entry(EnumInfo("Role", << Str("USER"), Str("ADMIN"), Str("GUEST") >>)),
       Entry(EnumInfo("Status", << Str("ACTIVE") >>)) >>,
    << Entry(EnumInfo("Nothing", <<>>)) >> }

InterfaceModels ==
  { << Entry(Info("InterfaceTypeDefinition", "Node",
         << FInfo("InterfaceTypeDefinition", "key", Str("string")),
            FInfo("InterfaceTypeDefinition", "at", Str("Date")) >>)) >> }

UnionModels ==
  { << Entry([kind |-> "UnionTypeDefinition", name |-> Str("Result"),
              types |-> << Str("User"), Str("Role") >>]) >> }

OperationModels ==
  { << [key |-> Str("Query"),
        value |-> << [name |-> Str("getUser"),
                      args |-> << [name |-> Str("id"), type |-> Str("string")] >>,
                      returnType |-> Str("User")],
                     [name |-> Str("history"), args |-> <<>>,
                      returnType |-> Str("Date") \o Brackets] >>],
       [key |-> Str("Mutation"), value |-> <<>>],
       [key |-> Str("Subscription"), value |-> <<>>] >> }

----------------------------------------------------------------------------
(* The exported operations *)

UpdateScalarTypeMap(map) ==
  /\ typeMap' = ObjectAssign(typeMap, map)
  /\ ret' = [op |-> "updateScalarTypeMap", map |-> map]

GetScalarTypeMap ==
  /\ ret' = [op |-> "getScalarTypeMap", value |-> getScalarTypeMap]
  /\ UNCHANGED typeMap

GetTypeName(type) ==
  /\ ret' = [op |-> "getTypeName", type |-> type, value |-> getTypeName(type)]
  /\ UNCHANGED typeMap

ParseGraphqlDocument(schemaFile, exists, read) ==
  /\ ret' = [op |-> "parseGraphqlDocument", schemaFile |-> schemaFile,
             exists |-> exists, read |-> read,
             result |-> parseGraphqlDocument(schemaFile, exists, read,
                                             IF read.ok THEN Parse(read.source) ELSE None)]
  /\ UNCHANGED typeMap

ParseOperations(document) ==
  /\ ret' = [op |-> "parseOperations", document |-> document,
             value |-> parseOperations(document)]
  /\ UNCHANGED typeMap

ParseTypeDefinitions(document) ==
  /\ ret' = [op |-> "parseTypeDefinitions", document |-> document,
             value |-> parseTypeDefinitions(document)]
  /\ UNCHANGED typeMap

ParseExtendedTypes(document) ==
  /\ ret' = [op |-> "parseExtendedTypes", document |-> document,
             value |-> parseExtendedTypes(document)]
  /\ UNCHANGED typeMap

\* one of the six generate functions, called with a model and options;
\* scalars notes the Scalar Type Map the call ran with
Generated(op, model, options, text) ==
  /\ ret' = [op |-> op, model |-> model, options |-> options,
             scalars |-> typeMap, value |-> text]
  /\ UNCHANGED typeMap

GenerateTypeScriptTypes(model, options) ==
  Generated("generateTypeScriptTypes", model, options,
            generateTypeScriptTypes(model, options))

GenerateInputTypes(model, options) ==
  Generated("generateInputTypes", model, options, generateInputTypes(model, options))

GenerateEnums(model, options) ==
  Generated("generateEnums", model, options, generateEnums(model, options))

GenerateInterfaces(model, options) ==
  Generated("generateInterfaces", model, options, generateInterfaces(model, options))

GenerateUnions(model, options) ==
  Generated("generateUnions", model, options, generateUnions(model, options))

GenerateOperations(model, options) ==
  Generated("generateOperations", model, options, generateOperations(model, options))

GenerateAll(document, options) ==
  /\ ret' = [op |-> "generateAll", document |-> document, options |-> options,
             value |-> generateAll(document, options)]
  /\ UNCHANGED typeMap

Init ==
  /\ typeMap = InitialTypeMap
  /\ ret = None
  /\ snapshot = None
  /\ first = None

\* A caller calls one exported function at a time and, once it has looked at
\* what the call gave it, lets go of it before the next call.
Idle == ret = None

Forget ==
  /\ ret # None
  /\ ret' = None
  /\ UNCHANGED <<typeMap, snapshot, first>>

Aux == UNCHANGED <<snapshot, first>>

Next ==
  \/ Idle /\ \E map \in Overrides \cup {BangOverride} : UpdateScalarTypeMap(map) /\ Aux
  \/ Idle /\ GetScalarTypeMap /\ Aux
  \/ Idle /\ \E t \in TypeRefs(1) : GetTypeName(t) /\ Aux
  \/ Idle /\ \E f \in SchemaFiles, e \in BOOLEAN, r \in ReadOutcomes :
       ParseGraphqlDocument(f, e, r) /\ Aux
  \/ Idle /\ \E d \in Documents : ParseOperations(d) /\ Aux
  \/ Idle /\ \E d \in Documents : ParseTypeDefinitions(d) /\ Aux
  \/ Idle /\ \E d \in Documents : ParseExtendedTypes(d) /\ Aux
  \/ Idle /\ \E m \in TypeModels, o \in OptionsSet : GenerateTypeScriptTypes(m, o) /\ Aux
  \/ Idle /\ \E m \in InputModels, o \in OptionsSet : GenerateInputTypes(m, o) /\ Aux
  \/ Idle /\ \E m \in EnumModels, o \in OptionsSet : GenerateEnums(m, o) /\ Aux
  \/ Idle /\ \E m \in InterfaceModels, o \in OptionsSet : GenerateInterfaces(m, o) /\ Aux
  \/ Idle /\ \E m \in UnionModels, o \in OptionsSet : GenerateUnions(m, o) /\ Aux
  \/ Idle /\ \E m \in OperationModels, o \in OptionsSet : GenerateOperations(m, o) /\ Aux
  \/ Idle /\ \E d \in Documents, o \in OptionsSet : GenerateAll(d, o) /\ Aux
  \/ Forget

Spec == Init /\ [][Next]_vars

----------------------------------------------------------------------------
(* The registry and the resolver on their own, with a caller that keeps the *)
(* object getScalarTypeMap gave it and later tries to write it             *)

KeepSnapshot ==
  /\ Idle
  /\ GetScalarTypeMap
  /\ snapshot' = ret'.value
  /\ UNCHANGED first

\* snapshot[key] = value
WriteSnapshot(key, value) ==
  /\ Idle
  /\ snapshot # None
  /\ snapshot' = SetProperty(snapshot, key, value)
  /\ ret' = [op |-> "writeSnapshot", key |-> key, value |-> value]
  /\ UNCHANGED <<typeMap, first>>

NextRegistry ==
  \/ Idle /\ \E map \in Overrides : UpdateScalarTypeMap(map) /\ Aux
  \/ KeepSnapshot
  \/ \E k \in OverrideKeys, v \in OverrideValues : WriteSnapshot(k, v)
  \/ Idle /\ \E t \in TypeRefs(MaxWrap) : GetTypeName(t) /\ Aux
  \/ Forget

SpecRegistry == Init /\ [][NextRegistry]_vars

----------------------------------------------------------------------------
(* The generate functions called again and again between registry updates,  *)
(* by a caller that keeps the first text it was given                       *)

SameCall(a, b) == a.op = b.op /\ a.model = b.model /\ a.options = b.options

\* the first call is kept; again notes that the same call was made once more
KeepFirst ==
  first' = IF first = None THEN [call |-> ret', again |-> FALSE]
           ELSE IF SameCall(ret', first.call) THEN [first EXCEPT !.again = TRUE]
           ELSE first

NextRender ==
  \/ Idle /\ \E map \in DateOverrides : UpdateScalarTypeMap(map) /\ Aux
  \/ KeepSnapshot
  \/ Idle /\ \E m \in TypeModels, o \in OptionsSet :
       GenerateTypeScriptTypes(m, o) /\ KeepFirst /\ UNCHANGED snapshot
  \/ Idle /\ \E m \in InputModels, o \in OptionsSet :
       GenerateInputTypes(m, o) /\ KeepFirst /\ UNCHANGED snapshot
  \/ Idle /\ \E m \in EnumModels, o \in OptionsSet :
       GenerateEnums(m, o) /\ KeepFirst /\ UNCHANGED snapshot
  \/ Idle /\ \E m \in InterfaceModels, o \in OptionsSet :
       GenerateInterfaces(m, o) /\ KeepFirst /\ UNCHANGED snapshot
  \/ Idle /\ \E m \in UnionModels, o \in OptionsSet :
       GenerateUnions(m, o) /\ KeepFirst /\ UNCHANGED snapshot
  \/ Idle /\ \E m \in OperationModels, o \in OptionsSet :
       GenerateOperations(m, o) /\ KeepFirst /\ UNCHANGED snapshot
  \/ Forget

SpecRender == Init /\ [][NextRender]_vars

----------------------------------------------------------------------------
(* Claims about the registry and the Type-Name Resolver (SpecRegistry) *)

RECURSIVE BaseName(_)
BaseName(type) == IF type.kind = "NamedType" THEN type.name ELSE BaseName(type.type)

RECURSIVE ListWrappers(_)
ListWrappers(type) ==
  IF type.kind = "NamedType" THEN 0
  ELSE ListWrappers(type.type) + (IF type.kind = "ListType" THEN 1 ELSE 0)

RECURSIVE Repeat(_, _)
Repeat(s, n) == IF n = 0 THEN <<>> ELSE s \o Repeat(s, n - 1)

\* the entry of name n in map m if it has one, else n itself
EntryOrName(m, n) == IF n \in DOMAIN m THEN m[n] ELSE n

\* C3: getTypeName of a reference gives the base name, replaced by its Scalar
\* Type Map entry if it has one, followed by exactly one "[]" per list
\* wrapper whatever the non-null wrappers, and leaves the map unchanged.
C3_ResolverShape ==
  [][ret'.op = "getTypeName" =>
       /\ ret'.value = EntryOrName(typeMap, BaseName(ret'.type))
                         \o Repeat(Brackets, ListWrappers(ret'.type))
       /\ typeMap' = typeMap]_vars

\* C6: an update merges (supplied keys take the supplied value, the others
\* keep theirs, no key is removed), and resolving a named type n gives the
\* current map value of n when n is a key and n itself otherwise.
C6_RegistryMergeAndLookup ==
  [][/\ ret'.op = "updateScalarTypeMap" =>
          /\ DOMAIN typeMap \subseteq DOMAIN typeMap'
          /\ \A k \in DOMAIN typeMap' :
               typeMap'[k] = IF k \in DOMAIN ret'.map THEN ret'.map[k] ELSE typeMap[k]
     /\ (ret'.op = "getTypeName" /\ ret'.type.kind = "NamedType") =>
          ret'.value = EntryOrName(typeMap', ret'.type.name)]_vars

\* C7: the object getScalarTypeMap returns equals the live map at the call,
\* the call leaves the live map unchanged, and afterwards neither a later
\* update nor an attempted write changes the object, nor does the write
\* change the live map.
C7_SnapshotImmutable ==
  [][/\ ret'.op = "getScalarTypeMap" =>
          (ret'.value.props = typeMap /\ typeMap' = typeMap /\ snapshot' = ret'.value)
     /\ (snapshot # None /\ ret'.op # "getScalarTypeMap") => snapshot' = snapshot
     /\ ret'.op = "writeSnapshot" => typeMap' = typeMap]_vars

\* a write was attempted on a snapshot that no longer equals the live map
C7_Witness ==
  /\ ret.op = "writeSnapshot"
  /\ snapshot # None
  /\ snapshot.props # typeMap
  /\ ret.key \in DOMAIN snapshot.props
  /\ snapshot.props[ret.key] # ret.value

----------------------------------------------------------------------------
(* Claims about rendering and orchestration (Spec) *)

Strict(options) == Flag(options, "strictNullChecks")
Affix(name, options) ==
  (IF "prefix" \in DOMAIN options THEN options.prefix ELSE <<>>) \o name
    \o (IF "suffix" \in DOMAIN options THEN options.suffix ELSE <<>>)

RECURSIVE StripBrackets(_)
StripBrackets(type) ==
  IF EndsWith(type, Brackets) THEN StripBrackets(DropLast(type, 2)) ELSE type

IsPrimitive(type) ==
  StripBrackets(type) \in { Str("string"), Str("number"), Str("boolean") }

\* the text has a field line for this name with exactly this type
FieldEmittedAs(text, name, type) ==
  \/ Includes(text, <<"  ">> \o name \o <<": ">> \o type \o <<";">>)
  \/ Includes(text, <<"  ">> \o name \o <<"?", ": ">> \o type \o <<";">>)

ArgEmittedAs(text, name, type) ==
  \/ Includes(text, name \o <<": ">> \o type \o <<", ">>)
  \/ Includes(text, name \o <<": ">> \o type \o <<"): ">>)

\* every field whose flattened type is a primitive, with or without "[]",
\* is emitted with that very type
PrimitiveFieldsKept(text, infos) ==
  \A i \in 1..Len(infos) :
    "fields" \in DOMAIN infos[i] =>
      \A j \in 1..Len(infos[i].fields) :
        LET f == infos[i].fields[j] IN
        IsPrimitive(f.type) => FieldEmittedAs(text, f.name, f.type)

PrimitiveSignaturesKept(text, operations) ==
  \A i \in 1..Len(operations) :
    \A j \in 1..Len(operations[i].value) :
      LET f == operations[i].value[j] IN
      /\ IsPrimitive(f.returnType) =>
           Includes(text, <<"): ">> \o f.returnType \o <<";">>)
      /\ \A k \in 1..Len(f.args) :
           IsPrimitive(f.args[k].type) =>
             ArgEmittedAs(text, f.args[k].name, f.args[k].type)

\* the declared names carry the prefix and the suffix
DeclaredNamesFormatted(text, infos, options) ==
  \A i \in 1..Len(infos) :
    Includes(text, <<"export interface ">> \o Affix(infos[i].name, options))
      \/ Includes(text, <<"export type ">> \o Affix(infos[i].name, options))

Unit(results, filename) ==
  results[CHOOSE i \in 1..Len(results) : results[i].filename = filename]
HasUnit(results, filename) ==
  \E i \in 1..Len(results) : results[i].filename = filename

\* C1: whatever the prefix and suffix, a field, argument or return type that
\* is a resolved primitive (string, number, boolean, with any number of "[]")
\* is emitted without prefix or suffix, while the declared names carry them.
C1_PrimitivesNotFormatted ==
  /\ ret.op \in { "generateTypeScriptTypes", "generateInputTypes",
                  "generateInterfaces" } =>
       /\ PrimitiveFieldsKept(ret.value, OmValues(ret.model))
       /\ DeclaredNamesFormatted(ret.value, OmValues(ret.model), ret.options)
  /\ ret.op = "generateOperations" =>
       PrimitiveSignaturesKept(ret.value, ret.model)
  /\ ret.op = "generateAll" =>
       LET ext == parseExtendedTypes(ret.document) IN
       /\ HasUnit(ret.value, "types.ts") =>
            PrimitiveFieldsKept(Unit(ret.value, "types.ts").content, OmValues(ext.objects))
       /\ HasUnit(ret.value, "inputs.ts") =>
            PrimitiveFieldsKept(Unit(ret.value, "inputs.ts").content, OmValues(ext.inputs))
       /\ HasUnit(ret.value, "interfaces.ts") =>
            PrimitiveFieldsKept(Unit(ret.value, "interfaces.ts").content,
                                OmValues(ext.interfaces))
       /\ HasUnit(ret.value, "operations.ts") =>
            PrimitiveSignaturesKept(Unit(ret.value, "operations.ts").content,
                                    parseOperations(ret.document))

HasKind(document, kind) ==
  \E i \in 1..Len(document.definitions) : document.definitions[i].kind = kind

\* some object definition named Query, Mutation or Subscription has a field
HasRootField(document) ==
  \E i \in 1..Len(document.definitions) :
    LET def == document.definitions[i] IN
    /\ def.kind = "ObjectTypeDefinition"
    /\ def.name \in { Str("Query"), Str("Mutation"), Str("Subscription") }
    /\ "fields" \in DOMAIN def
    /\ def.fields # <<>>

ExpectedUnits(document) ==
  (IF HasKind(document, "ObjectTypeDefinition") THEN <<"types.ts">> ELSE <<>>)
    \o (IF HasKind(document, "InputObjectTypeDefinition") THEN <<"inputs.ts">> ELSE <<>>)
    \o (IF HasKind(document, "EnumTypeDefinition") THEN <<"enums.ts">> ELSE <<>>)
    \o (IF HasKind(document, "InterfaceTypeDefinition") THEN <<"interfaces.ts">> ELSE <<>>)
    \o (IF HasKind(document, "UnionTypeDefinition") THEN <<"unions.ts">> ELSE <<>>)
    \o (IF HasRootField(document) THEN <<"operations.ts">> ELSE <<>>)

\* C2: generateAll returns one unit per category the document has a
\* definition of (operations.ts when a root sequence is non-empty), each at
\* most once, in the order types, inputs, enums, interfaces, unions, operations.
C2_UnitsPerNonEmptyCategory ==
  ret.op = "generateAll" =>
    [i \in 1..Len(ret.value) |-> ret.value[i].filename] = ExpectedUnits(ret.document)

\* an object root without fields gives types.ts, the root with fields adds
\* operations.ts, and the four other units are left out
C2_Witness ==
  /\ ret.op = "generateAll"
  /\ ret.document.definitions = <<ObjSubscriptionBare, ObjQuery>>
  /\ [i \in 1..Len(ret.value) |-> ret.value[i].filename] = <<"types.ts", "operations.ts">>

\* the field nodes, in document order, of the object definitions named root
RECURSIVE RootFieldNodes(_, _)
RootFieldNodes(definitions, root) ==
  IF definitions = <<>> THEN <<>>
  ELSE LET def == Head(definitions) IN
       (IF def.kind = "ObjectTypeDefinition" /\ def.name = root /\ "fields" \in DOMAIN def
        THEN def.fields ELSE <<>>) \o RootFieldNodes(Tail(definitions), root)

\* an operation field is the extraction of this field node
ExtractedFrom(f, node) ==
  /\ f.name = node.name
  /\ f.returnType = getTypeName(node.type)
  /\ "args" \in DOMAIN f
  /\ IF "arguments" \in DOMAIN node
     THEN /\ Len(f.args) = Len(node.arguments)
          /\ \A k \in 1..Len(f.args) :
               /\ f.args[k].name = node.arguments[k].name
               /\ f.args[k].type = getTypeName(node.arguments[k].type)
     ELSE f.args = <<>>

\* C4: parseOperations gives exactly the keys Query, Mutation, Subscription;
\* under each, the fields of every object definition of that name, appended
\* in document order, each with an argument sequence (empty, not absent,
\* when none is declared); nothing else contributes.
C4_OperationsAccumulate ==
  ret.op = "parseOperations" =>
    /\ OmKeys(ret.value) = << Str("Query"), Str("Mutation"), Str("Subscription") >>
    /\ \A i \in 1..Len(ret.value) :
         LET nodes == RootFieldNodes(ret.document.definitions, ret.value[i].key)
             fields == ret.value[i].value
         IN  /\ Len(fields) = Len(nodes)
             /\ \A j \in 1..Len(fields) : ExtractedFrom(fields[j], nodes[j])

\* Query is defined twice; the second definition's field has no arguments node
C4_Witness ==
  /\ ret.op = "parseOperations"
  /\ ret.document.definitions = <<ObjQuery, ObjQueryMore>>
  /\ [j \in 1..Len(OmGet(ret.value, Str("Query"))) |->
        OmGet(ret.value, Str("Query"))[j].name] = << Str("getUser"), Str("users"), Str("now") >>
  /\ OmGet(ret.value, Str("Query"))[3].args = <<>>

\* the names a definition node or a model entry lists (fields, values, members)
MemberNames(x) ==
  IF "fields" \in DOMAIN x THEN [j \in 1..Len(x.fields) |-> x.fields[j].name]
  ELSE IF "values" \in DOMAIN x THEN x.values
  ELSE IF "types" \in DOMAIN x THEN x.types
  ELSE <<>>

BucketNames == { "objects", "inputs", "scalars", "enums", "interfaces", "unions" }

KindOfBucket(bucket) ==
  CASE bucket = "objects" -> "ObjectTypeDefinition"
    [] bucket = "inputs" -> "InputObjectTypeDefinition"
    [] bucket = "scalars" -> "ScalarTypeDefinition"
    [] bucket = "enums" -> "EnumTypeDefinition"
    [] bucket = "interfaces" -> "InterfaceTypeDefinition"
    [] bucket = "unions" -> "UnionTypeDefinition"

\* the bucket holds an entry made from this definition node
AppearsIn(def, entries) ==
  \E i \in 1..Len(entries) :
    /\ entries[i].key = def.name
    /\ entries[i].value.kind = def.kind
    /\ entries[i].value.name = def.name
    /\ MemberNames(entries[i].value) = MemberNames(def)

\* every entry of every bucket is of the bucket's kind and made from a
\* definition of the document, and unrecognized kinds are in no bucket
OnlyOwnKind(document, result) ==
  \A b \in BucketNames :
    \A i \in 1..Len(result[b]) :
      /\ result[b][i].value.kind = KindOfBucket(b)
      /\ \E k \in 1..Len(document.definitions) :
           /\ document.definitions[k].kind = KindOfBucket(b)
           /\ AppearsIn(document.definitions[k], <<result[b][i]>>)

\* no later definition of the document has the kind and the name of the k-th
LastOfItsName(definitions, k) ==
  \A l \in (k + 1)..Len(definitions) :
    ~(definitions[l].kind = definitions[k].kind /\ definitions[l].name = definitions[k].name)

\* C5 as stated: every definition of a recognized kind is in exactly one
\* bucket, the bucket of its kind; unrecognized kinds are in none.
C5_BucketsPartitionAll ==
  ret.op = "parseExtendedTypes" =>
    /\ OnlyOwnKind(ret.document, ret.value)
    /\ \A k \in 1..Len(ret.document.definitions) :
         LET def == ret.document.definitions[k] IN
         def.kind \in RecognizedKinds =>
           \A b \in BucketNames :
             AppearsIn(def, ret.value[b]) <=> (KindOfBucket(b) = def.kind)

\* C5 amended: the same for every definition that no later definition of the
\* same kind and name overwrites; a bucket holds one entry per name.
C5_BucketsPartitionLast ==
  ret.op = "parseExtendedTypes" =>
    /\ OnlyOwnKind(ret.document, ret.value)
    /\ \A b \in BucketNames :
         \A i, j \in 1..Len(ret.value[b]) :
           ret.value[b][i].key = ret.value[b][j].key => i = j
    /\ \A k \in 1..Len(ret.document.definitions) :
         LET def == ret.document.definitions[k] IN
         (def.kind \in RecognizedKinds /\ LastOfItsName(ret.document.definitions, k)) =>
           \A b \in BucketNames :
             AppearsIn(def, ret.value[b]) <=> (KindOfBucket(b) = def.kind)

\* an interface and an unrecognized definition: one entry, in interfaces
C5_Witness ==
  /\ ret.op = "parseExtendedTypes"
  /\ ret.document.definitions = <<InterfaceNode, ExtendQuery>>
  /\ Len(ret.value.interfaces) = 1
  /\ \A b \in BucketNames \ {"interfaces"} : ret.value[b] = <<>>

\* the fields of these entries are rendered with "?" exactly when the options
\* are strict and the flattened type holds no "!"
MarkersAsClaimed(text, infos, options) ==
  \A i \in 1..Len(infos) :
    infos[i].kind # "ScalarTypeDefinition" =>
      \A j \in 1..Len(infos[i].fields) :
        LET f == infos[i].fields[j]
            optional == Strict(options) /\ ~Includes(f.type, Bang)
        IN  /\ Includes(text, <<"  ">> \o f.name \o <<"?", ": ">>) <=> optional
            /\ Includes(text, <<"  ">> \o f.name \o <<": ">>) <=> ~optional

AllOptional(text, infos) ==
  \A i \in 1..Len(infos) :
    \A j \in 1..Len(infos[i].fields) :
      Includes(text, <<"  ">> \o infos[i].fields[j].name \o <<"?", ": ">>)

NoRegistryBang == \A k \in DOMAIN typeMap : ~Includes(typeMap[k], Bang)

FieldUnits == << <<"types.ts", "objects">>, <<"inputs.ts", "inputs">>,
                 <<"interfaces.ts", "interfaces">> >>

\* C8: a field is rendered with "?" iff strictNullChecks is true and its
\* flattened type holds no "!"; through parseExtendedTypes, with strict
\* options and no "!" in the registry, every field is optional; with
\* strictNullChecks false or absent, none is.
C8_OptionalMarker ==
  /\ ret.op \in { "generateTypeScriptTypes", "generateInputTypes",
                  "generateInterfaces" } =>
       /\ MarkersAsClaimed(ret.value, OmValues(ret.model), ret.options)
       /\ ~Strict(ret.options) => ~Includes(ret.value, <<"?">>)
  /\ ret.op = "generateAll" =>
       LET ext == parseExtendedTypes(ret.document) IN
       \A u \in 1..Len(FieldUnits) :
         HasUnit(ret.value, FieldUnits[u][1]) =>
           LET text == Unit(ret.value, FieldUnits[u][1]).content
               infos == OmValues(ext[FieldUnits[u][2]])
           IN  /\ MarkersAsClaimed(text, infos, ret.options)
               /\ (Strict(ret.options) /\ NoRegistryBang) => AllOptional(text, infos)
               /\ ~Strict(ret.options) => ~Includes(text, <<"?">>)

\* tags: [String!]! is rendered as "tags?: string[];" under strict options
C8_Witness ==
  /\ ret.op = "generateAll"
  /\ Strict(ret.options)
  /\ ret.document.definitions = <<ObjUser>>
  /\ Includes(ret.value[1].content,
              <<"  ", "tags", "?", ": ", "string", "[", "]", ";">>)

\* C9: parseGraphqlDocument throws a GraphQLParseError naming the path before
\* any read or parse when the path does not exist; throws one naming the path
\* with the original failure as cause when reading or parsing fails; returns
\* the parser's document otherwise; parses at most once; lets nothing but a
\* GraphQLParseError escape.
C9_LoadOutcomes ==
  ret.op = "parseGraphqlDocument" =>
    LET r == ret.result
        Thrown(cause) ==
          /\ r.outcome = "throw"
          /\ r.error.class = "GraphQLParseError"
          /\ Includes(r.error.message, ret.schemaFile)
          /\ IF cause = None THEN "cause" \notin DOMAIN r.error
             ELSE "cause" \in DOMAIN r.error /\ r.error.cause = cause
    IN  /\ ~ret.exists => (Thrown(None) /\ r.calls = <<"existsSync">>)
        /\ (ret.exists /\ ~ret.read.ok) =>
             (Thrown(ret.read.error) /\ \A i \in 1..Len(r.calls) : r.calls[i] # "parse")
        /\ (ret.exists /\ ret.read.ok /\ ~Parse(ret.read.source).ok) =>
             Thrown(Parse(ret.read.source).error)
        /\ (ret.exists /\ ret.read.ok /\ Parse(ret.read.source).ok) =>
             (r.outcome = "return" /\ r.value = Parse(ret.read.source).document)
        /\ Cardinality({ i \in 1..Len(r.calls) : r.calls[i] = "parse" }) <= 1
        /\ r.outcome = "throw" => r.error.class = "GraphQLParseError"

\* the file exists and is read, the parser rejects it
C9_Witness ==
  /\ ret.op = "parseGraphqlDocument"
  /\ ret.result.outcome = "throw"
  /\ ret.result.calls = <<"existsSync", "readFileSync", "parse">>
  /\ ret.result.error.cause.class = "GraphQLError"

----------------------------------------------------------------------------
(* Claims about repeated rendering (SpecRender) *)

IsGenerated(r) ==
  r.op \in { "generateTypeScriptTypes", "generateInputTypes", "generateEnums",
             "generateInterfaces", "generateUnions", "generateOperations" }

SameCallAsFirst == first # None /\ IsGenerated(ret) /\ SameCall(ret, first.call)

----------------------------------------------------------------------------
(* Claims about enum declarations (Spec) *)

\* the entries of the mapping, in declared order, each value written before
\* its own string literal with the given sign between the two
LiteralEntries(values, sign) ==
  [i \in 1..Len(values) |-> <<"  ">> \o values[i] \o sign \o <<"'">> \o values[i] \o <<"'">>]

RECURSIVE CommaLines(_)
CommaLines(entries) ==
  IF entries = <<>> THEN <<>>
  ELSE IF Len(entries) = 1 THEN entries[1]
  ELSE entries[1] \o <<",\n">> \o CommaLines(Tail(entries))

\* export enum N { v1 = 'v1', ... }: a member of an enum takes "="
NativeEnum(info, options) ==
  <<"export enum ">> \o Affix(info.name, options) \o <<" {\n">>
    \o CommaLines(LiteralEntries(info.values, <<" = ">>)) \o <<"\n}">>

\* export const N = { v1: 'v1', ... } as const: in an object literal a key
\* and its value are written key: value
FrozenObject(info, options) ==
  <<"export const ">> \o Affix(info.name, options) \o <<" = {\n">>
    \o CommaLines(LiteralEntries(info.values, <<": ">>)) \o <<"\n} as const;">>

\* export type N = typeof N[keyof typeof N]
UnionOfValues(info, options) ==
  LET N == Affix(info.name, options)
  IN  <<"export type ">> \o N \o <<" = typeof ">> \o N \o <<"[keyof typeof ">> \o N \o <<"];">>

\* the text as one run of characters: how it is cut into pieces is forgotten
RECURSIVE Glue(_)
Glue(pieces) == IF pieces = <<>> THEN "" ELSE Head(pieces) \o Glue(Tail(pieces))

\* the text holds the declaration, character for character
Declares(text, declaration) ==
  \E i \in 1..Len(text), j \in 1..Len(text) :
    i <= j /\ Glue(SubSeq(text, i, j)) = Glue(declaration)

UsesEnumType(options) == "useEnumType" \in DOMAIN options /\ options.useEnumType

NativeEnumsDeclared(text, infos, options) ==
  ~UsesEnumType(options) =>
    \A i \in 1..Len(infos) : Declares(text, NativeEnum(infos[i], options))

FrozenObjectsDeclared(text, infos, options) ==
  UsesEnumType(options) =>
    \A i \in 1..Len(infos) :
      /\ Declares(text, FrozenObject(infos[i], options))
      /\ Declares(text, UnionOfValues(infos[i], options))

\* the enum definitions of a document, each the last of its name
EnumNodes(document) ==
  LET defs == document.definitions IN
  { defs[k] : k \in { l \in 1..Len(defs) :
                        defs[l].kind = "EnumTypeDefinition" /\ LastOfItsName(defs, l) } }

\* the half of C11 about useEnumType false or absent, on its own
NativeEnumHalf ==
  /\ ret.op = "generateEnums" =>
       NativeEnumsDeclared(ret.value, OmValues(ret.model), ret.options)
  /\ (ret.op = "generateAll" /\ HasUnit(ret.value, "enums.ts")) =>
       \A d \in EnumNodes(ret.document) :
         NativeEnumsDeclared(Unit(ret.value, "enums.ts").content, <<d>>, ret.options)

\* C11: every enum model entry is declared, under prefix+name+suffix, as a
\* native enum whose members in declared order are v = 'v' when useEnumType
\* is false or absent, and as a frozen object literal with each value as a
\* key whose value is its own string literal, followed by the union-of-values
\* type of the same name, when useEnumType is true.
C11_EnumDeclarationShape ==
  /\ NativeEnumHalf
  /\ ret.op = "generateEnums" =>
       FrozenObjectsDeclared(ret.value, OmValues(ret.model), ret.options)
  /\ (ret.op = "generateAll" /\ HasUnit(ret.value, "enums.ts")) =>
       \A d \in EnumNodes(ret.document) :
         FrozenObjectsDeclared(Unit(ret.value, "enums.ts").content, <<d>>, ret.options)

====
